---- MODULE Spec2Model ----
(***************************************************************************)
(* Trace reconstruction core of the annotation frontend:                   *)
(*   buildSpanTree  (trace sidebar)  - flat steps -> rooted span tree      *)
(*   buildSpanGraph (agent model)    - flat steps -> name-grouped graph    *)
(* Both are pure functions; each specification draws an input step         *)
(* collection in Init and its actions apply the builders to it.            *)
(* The test case views (references, trace, annotation) and the test case   *)
(* validator are modelled on a test case and a route drawn in Init.        *)
(***************************************************************************)
EXTENDS Integers, Sequences, FiniteSets, TLC

VARIABLES steps, treeOut, rebuilt, graphOut, testCase, route, view

vars == <<steps, treeOut, rebuilt, graphOut, testCase, route, view>>

\* the state of the builders, and the state of the test case views
buildVars == <<steps, treeOut, rebuilt, graphOut>>
viewVars == <<testCase, route, view>>

(***************************************************************************)
(* Bounds of the input space.                                              *)
(***************************************************************************)
MaxSteps == 3
MaxStart == 2

\* null / undefined of a nullish field
NULL == "null"
\* null / undefined of a nullish number (start_ns)
NoStart == -1
\* an output variable holds <<>> until its builder has returned, then <<result>>
\* (graphOut: the results of the builds so far, in order)
NotRun == <<>>

\* no test case is being viewed
NoView == testCase = NotRun /\ route = NotRun /\ view = NotRun

StepIds == <<"a", "b", "c">>
IdSet == {StepIds[i] : i \in 1..Len(StepIds)}
RefSet == IdSet \cup {NULL}
StartSet == (0..MaxStart) \cup {NoStart}

\* JavaScript truthiness of a nullish string (`x && ...`, `if (x)`, `!x`)
Truthy(s) == s # NULL /\ s # ""

\* `x.start_ns ?? 0`
StartOrZero(s) == IF s.start_ns = NoStart THEN 0 ELSE s.start_ns

Range(f) == {f[i] : i \in DOMAIN f}

(***************************************************************************)
(* Array.prototype.sort with the comparator (a, b) => key(a) - key(b):     *)
(* a stable sort, ascending by key.                                        *)
(***************************************************************************)
\* mutant: x goes before the elements of its own key (ties come out reversed)
InsertByKey_BeforeTies(sorted, x) ==
  LET p == Cardinality({i \in 1..Len(sorted) : sorted[i][1] < x[1]})
  IN  SubSeq(sorted, 1, p) \o <<x>> \o SubSeq(sorted, p + 1, Len(sorted))

\* an element is <<key, item>>; x goes behind the elements whose key is <= its key
InsertByKey(sorted, x) ==
  LET p == Cardinality({i \in 1..Len(sorted) : sorted[i][1] <= x[1]})
  IN  SubSeq(sorted, 1, p) \o <<x>> \o SubSeq(sorted, p + 1, Len(sorted))

\* the items of seq in sorted order, keys[i] the key of seq[i]
StableSort(seq, keys) ==
  LET ins[i \in 0..Len(seq)] ==
        IF i = 0 THEN <<>> ELSE InsertByKey(ins[i - 1], <<keys[i], seq[i]>>)
  IN  [i \in 1..Len(seq) |-> ins[Len(seq)][i][2]]

\* an array of steps after .sort((a, b) => (a.start_ns ?? 0) - (b.start_ns ?? 0))
SortedSteps(ss) == StableSort(ss, [i \in 1..Len(ss) |-> StartOrZero(ss[i])])

\* mutant: the sort runs on the caller's array itself (no slice())
SliceSort_InPlace(ss) == [input |-> SortedSteps(ss), sorted |-> SortedSteps(ss)]

\* steps.slice().sort(...): slice() returns a new array of the same steps and
\* sort() orders its receiver in place, so the copy is sorted and the caller's
\* array keeps its order.  input is the caller's array after the statement,
\* sorted the array the index loop runs over
SliceSort(ss) ==
  LET copy == ss
  IN  [input |-> ss, sorted |-> SortedSteps(copy)]

(***************************************************************************)
(* nodeMap: a JavaScript Map from step id to node.  keys is the insertion  *)
(* order (Map.set on a present key keeps its position and replaces the     *)
(* value), val the node of each key.  A node is the step plus children;    *)
(* children hold node references, modelled by the node's key.              *)
(***************************************************************************)
EmptyMap == [keys |-> <<>>, val |-> <<>>]

MapHas(m, k) == \E i \in 1..Len(m.keys) : m.keys[i] = k

MapGet(m, k) == m.val[CHOOSE i \in 1..Len(m.keys) : m.keys[i] = k]

\* mutant: the index as a plain list, every set appends an entry
MapSet_AlwaysAppend(m, k, v) ==
  [keys |-> Append(m.keys, k), val |-> Append(m.val, v)]

MapSet(m, k, v) ==
  IF MapHas(m, k)
  THEN [m EXCEPT !.val[CHOOSE i \in 1..Len(m.keys) : m.keys[i] = k] = v]
  ELSE [keys |-> Append(m.keys, k), val |-> Append(m.val, v)]

MakeNode(step) ==
  [id |-> step.id, parent_step_id |-> step.parent_step_id,
   interaction_id |-> step.interaction_id, start_ns |-> step.start_ns,
   name |-> step.name, span_type |-> step.span_type, children |-> <<>>]

\* first pass: index every step of the sorted copy by id
IndexSteps(ss) ==
  LET sorted == SliceSort(ss).sorted
      idx[i \in 0..Len(sorted)] ==
        IF i = 0 THEN EmptyMap
        ELSE MapSet(idx[i - 1], sorted[i].id, MakeNode(sorted[i]))
  IN  idx[Len(sorted)]

\* the set of interaction ids collected in the first pass
InteractionIds(ss) ==
  {ss[i].interaction_id : i \in {j \in 1..Len(ss) : Truthy(ss[j].interaction_id)}}

PushChild(m, parentKey, childKey) ==
  LET p == MapGet(m, parentKey)
  IN  MapSet(m, parentKey, [p EXCEPT !.children = Append(@, childKey)])

\* mutant: a step that is its own parent is pushed to its own children and
\* to the roots as well
AttachNode_SelfAlsoRoot(st, key, interactionIds) ==
  LET node == MapGet(st.map, key)
  IN  IF Truthy(node.parent_step_id) /\ MapHas(st.map, node.parent_step_id)
      THEN IF node.parent_step_id = key
           THEN [map |-> PushChild(st.map, node.parent_step_id, key),
                 roots |-> Append(st.roots, key)]
           ELSE [st EXCEPT !.map = PushChild(st.map, node.parent_step_id, key)]
      ELSE IF Truthy(node.interaction_id) /\ node.interaction_id \in interactionIds
      THEN IF node.id # node.interaction_id
           THEN IF MapHas(st.map, node.interaction_id)
                THEN [st EXCEPT !.map = PushChild(st.map, node.interaction_id, key)]
                ELSE [st EXCEPT !.roots = Append(@, key)]
           ELSE [st EXCEPT !.roots = Append(@, key)]
      ELSE [st EXCEPT !.roots = Append(@, key)]

\* mutant: the interaction anchor is tried before parent_step_id
AttachNode_InteractionFirst(st, key, interactionIds) ==
  LET node == MapGet(st.map, key)
  IN  IF Truthy(node.interaction_id) /\ node.interaction_id \in interactionIds
         /\ node.id # node.interaction_id /\ MapHas(st.map, node.interaction_id)
      THEN [st EXCEPT !.map = PushChild(st.map, node.interaction_id, key)]
      ELSE IF Truthy(node.parent_step_id) /\ MapHas(st.map, node.parent_step_id)
      THEN [st EXCEPT !.map = PushChild(st.map, node.parent_step_id, key)]
      ELSE [st EXCEPT !.roots = Append(@, key)]

\* mutant: the test `node.id !== node.interaction_id` is missing
AttachNode_NoOwnIdTest(st, key, interactionIds) ==
  LET node == MapGet(st.map, key)
  IN  IF Truthy(node.parent_step_id) /\ MapHas(st.map, node.parent_step_id)
      THEN [st EXCEPT !.map = PushChild(st.map, node.parent_step_id, key)]
      ELSE IF Truthy(node.interaction_id) /\ node.interaction_id \in interactionIds
      THEN IF MapHas(st.map, node.interaction_id)
           THEN [st EXCEPT !.map = PushChild(st.map, node.interaction_id, key)]
           ELSE [st EXCEPT !.roots = Append(@, key)]
      ELSE [st EXCEPT !.roots = Append(@, key)]

(***************************************************************************)
(* Second pass, one node: st = [map, roots].                               *)
(***************************************************************************)
AttachNode(st, key, interactionIds) ==
  LET node == MapGet(st.map, key)
  IN  IF Truthy(node.parent_step_id) /\ MapHas(st.map, node.parent_step_id)
      THEN [st EXCEPT !.map = PushChild(st.map, node.parent_step_id, key)]
      ELSE IF Truthy(node.interaction_id) /\ node.interaction_id \in interactionIds
      THEN IF node.id # node.interaction_id
           THEN IF MapHas(st.map, node.interaction_id)
                THEN [st EXCEPT !.map = PushChild(st.map, node.interaction_id, key)]
                ELSE [st EXCEPT !.roots = Append(@, key)]
           ELSE [st EXCEPT !.roots = Append(@, key)]
      ELSE [st EXCEPT !.roots = Append(@, key)]

\* nodeMap.forEach((node) => ...): every key in insertion order
AttachAll(map, interactionIds) ==
  LET n == Len(map.keys)
      att[i \in 0..n] ==
        IF i = 0 THEN [map |-> map, roots |-> <<>>]
        ELSE AttachNode(att[i - 1], map.keys[i], interactionIds)
  IN  att[n]

(***************************************************************************)
(* sortChildren(nodes): sort the array in place, then recurse into the     *)
(* children array of each element.  loc names the array: RootsLoc for the  *)
(* roots array, a key for that node's children.  depth is the call stack   *)
(* left; a call with none left is the engine's stack overflow (RangeError),*)
(* recorded in overflow.  A forest of n nodes nests at most n + 1 calls,   *)
(* so deeper nesting is a recursion that never returns.                    *)
(***************************************************************************)
RootsLoc == "<roots>"

ListAt(st, loc) ==
  IF loc = RootsLoc THEN st.roots ELSE MapGet(st.map, loc).children

SetListAt(st, loc, list) ==
  IF loc = RootsLoc
  THEN [st EXCEPT !.roots = list]
  ELSE [st EXCEPT !.map =
          MapSet(st.map, loc, [MapGet(st.map, loc) EXCEPT !.children = list])]

RECURSIVE sortChildren(_, _, _)
sortChildren(st, loc, depth) ==
  IF st.overflow THEN st
  ELSE IF depth = 0 THEN [st EXCEPT !.overflow = TRUE]
  ELSE LET list == ListAt(st, loc)
           starts == [i \in 1..Len(list) |-> StartOrZero(MapGet(st.map, list[i]))]
           st1 == SetListAt(st, loc, StableSort(list, starts))
           n == Len(ListAt(st1, loc))
           each[i \in 0..n] ==
             IF i = 0 THEN st1
             ELSE sortChildren(each[i - 1], ListAt(each[i - 1], loc)[i], depth - 1)
       IN  each[n]

StackDepth(map) == Len(map.keys) + 1

\* the synthetic root wrapped around the forest
SyntheticRoot(roots) ==
  [id |-> "root", interaction_id |-> "root", parent_step_id |-> NULL,
   start_ns |-> NoStart, name |-> "AI Interaction", span_type |-> NULL,
   children |-> roots]

\* mutant: the forest is returned as attached, without the final re-sort
buildSpanTree_NoResort(ss) ==
  LET nodeMap == IndexSteps(ss)
      att == AttachAll(nodeMap, InteractionIds(ss))
  IN  [nodeMap |-> att.map, tree |-> <<SyntheticRoot(att.roots)>>, threw |-> FALSE]

(***************************************************************************)
(* buildSpanTree(steps).  threw is TRUE when the call ends in an error.    *)
(***************************************************************************)
buildSpanTree(ss) ==
  LET nodeMap == IndexSteps(ss)
      att == AttachAll(nodeMap, InteractionIds(ss))
      srt == sortChildren([map |-> att.map, roots |-> att.roots, overflow |-> FALSE],
                          RootsLoc, StackDepth(nodeMap))
  IN  [nodeMap |-> srt.map, tree |-> <<SyntheticRoot(srt.roots)>>,
       threw |-> srt.overflow]

(***************************************************************************)
(* Depth-first walk of the rendered tree (SpanTree renders a node, then    *)
(* its children in order): the keys below the synthetic root, in order.    *)
(***************************************************************************)
RECURSIVE WalkList(_, _, _)
WalkList(map, list, depth) ==
  IF depth = 0 THEN <<>>
  ELSE LET n == Len(list)
           acc[i \in 0..n] ==
             IF i = 0 THEN <<>>
             ELSE acc[i - 1] \o <<list[i]>>
                    \o WalkList(map, MapGet(map, list[i]).children, depth - 1)
       IN  acc[n]

DepthFirstWalk(out) == WalkList(out.nodeMap, out.tree[1].children, StackDepth(out.nodeMap))

\* the step a node wraps
StepOf(node) ==
  [id |-> node.id, parent_step_id |-> node.parent_step_id,
   interaction_id |-> node.interaction_id, start_ns |-> node.start_ns,
   name |-> node.name, span_type |-> node.span_type]

\* the flattened node set of a tree: the steps of the walk, in walk order
FlattenTree(out) ==
  LET w == DepthFirstWalk(out)
  IN  [i \in 1..Len(w) |-> StepOf(MapGet(out.nodeMap, w[i]))]

(***************************************************************************)
(* Input step collections of the tree specification.  The builders compare *)
(* ids only for equality, so ids are drawn up to renaming: the k-th step   *)
(* takes an id already used or the first unused one.                       *)
(***************************************************************************)
TreeStep(id, parent, interaction, start) ==
  [id |-> id, parent_step_id |-> parent, interaction_id |-> interaction,
   start_ns |-> start, name |-> NULL, span_type |-> NULL]

\* an interaction id is the id of a step or a pure grouping label
GroupingLabel == "g"
InteractionRefSet == {NULL, StepIds[1], GroupingLabel}

TreeStepSet ==
  {TreeStep(id, p, ia, s) : id \in IdSet, p \in RefSet, ia \in InteractionRefSet, s \in StartSet}

IdIndex(id) == CHOOSE i \in 1..Len(StepIds) : StepIds[i] = id

\* ss names its ids in order of first use: StepIds[1], then StepIds[2], ...
CanonicalIds(ss) ==
  \A i \in 1..Len(ss) :
    IdIndex(ss[i].id) <= Cardinality({ss[k].id : k \in 1..(i - 1)}) + 1

InitTree ==
  /\ \E n \in 0..MaxSteps : \E ss \in [1..n -> TreeStepSet] :
       CanonicalIds(ss) /\ steps = ss
  /\ treeOut = NotRun
  /\ rebuilt = NotRun
  /\ graphOut = NotRun
  /\ NoView

\* the trace view builds the tree of the step collection; steps is the
\* caller's array as the call leaves it
BuildTree ==
  /\ treeOut = NotRun
  /\ treeOut' = <<buildSpanTree(steps)>>
  /\ steps' = SliceSort(steps).input
  /\ UNCHANGED <<rebuilt, graphOut>>
  /\ UNCHANGED viewVars

\* the flattened tree is fed back through buildSpanTree
Reconstruct ==
  /\ treeOut # NotRun
  /\ rebuilt = NotRun
  /\ rebuilt' = <<buildSpanTree(FlattenTree(treeOut[1]))>>
  /\ UNCHANGED <<steps, treeOut, graphOut>>
  /\ UNCHANGED viewVars

NextTree == BuildTree \/ Reconstruct

Spec == InitTree /\ [][NextTree]_vars

(***************************************************************************)
(* Reading the output of buildSpanTree.                                    *)
(***************************************************************************)
TreeBuilt == treeOut # NotRun
Tree == treeOut[1]
Reconstructed == rebuilt # NotRun
Rebuilt == rebuilt[1]

Count(seq, x) == Cardinality({i \in 1..Len(seq) : seq[i] = x})

Keys(out) == Range(out.nodeMap.keys)
NodeOf(out, k) == MapGet(out.nodeMap, k)
Roots(out) == out.tree[1].children

\* the indexed nodes whose children list holds k
ParentsOf(out, k) == {q \in Keys(out) : Count(NodeOf(out, q).children, k) > 0}

IsForestRoot(out, k) == Count(Roots(out), k) = 1 /\ ParentsOf(out, k) = {}

IsChildOfExactly(out, k, p) ==
  /\ Count(NodeOf(out, p).children, k) = 1
  /\ ParentsOf(out, k) = {p}
  /\ Count(Roots(out), k) = 0

\* the parent_step_id of node k names an indexed step
HasResolvableParent(out, k) ==
  /\ Truthy(NodeOf(out, k).parent_step_id)
  /\ NodeOf(out, k).parent_step_id \in Keys(out)

\* c1 before c2 is in order: (c1.start_ns or 0) <= (c2.start_ns or 0)
SortedByStart(out, list) ==
  \A i \in 1..(Len(list) - 1) :
    StartOrZero(NodeOf(out, list[i])) <= StartOrZero(NodeOf(out, list[i + 1]))

(***************************************************************************)
(* C1: after buildSpanTree every input step appears exactly once in the    *)
(* depth-first walk under the synthetic root: the walk has as many steps   *)
(* as the input and holds each step as often as the input does.            *)
(***************************************************************************)
C1_EveryStepExactlyOnce ==
  TreeBuilt =>
    LET w == FlattenTree(Tree)
    IN  /\ Len(w) = Len(steps)
        /\ \A i \in 1..Len(steps) : Count(w, steps[i]) = Count(steps, steps[i])

(***************************************************************************)
(* C2: a step whose parent_step_id equals its own id is a forest root (a   *)
(* child of the synthetic root) and is not a child of itself.              *)
(***************************************************************************)
C2_SelfParentIsRoot ==
  TreeBuilt =>
    \A k \in Keys(Tree) :
      NodeOf(Tree, k).parent_step_id = k =>
        /\ Count(Roots(Tree), k) = 1
        /\ Count(NodeOf(Tree, k).children, k) = 0

(***************************************************************************)
(* C3: buildSpanTree returns without an error on every step collection,    *)
(* dangling, self-referential and cyclic references included: the          *)
(* recursive child sort never exhausts the call stack.                     *)
(***************************************************************************)
C3_NeverThrows == TreeBuilt => ~Tree.threw

\* a tree was built from steps a <-> b that are each other's parent and a
\* step c that is its own parent and carries a dangling interaction id
C3_Witness ==
  /\ TreeBuilt
  /\ Len(steps) = 3
  /\ steps[1].id = "a" /\ steps[1].parent_step_id = "b"
  /\ steps[2].id = "b" /\ steps[2].parent_step_id = "a"
  /\ steps[3].id = "c" /\ steps[3].parent_step_id = "c"
  /\ steps[3].interaction_id = GroupingLabel
  /\ ~Tree.threw

(***************************************************************************)
(* C4: in the tree under the synthetic root, the synthetic root included,  *)
(* every children list is sorted by start_ns ascending, a missing start_ns *)
(* counted as 0.                                                           *)
(***************************************************************************)
C4_ChildrenSorted ==
  TreeBuilt =>
    /\ SortedByStart(Tree, Roots(Tree))
    /\ \A k \in Range(DepthFirstWalk(Tree)) :
         SortedByStart(Tree, NodeOf(Tree, k).children)

\* a tree built from a(start 0), b(start 1), a(start 2): the index keeps a
\* first with the start of its later duplicate, the re-sort puts b first
C4_Witness ==
  /\ TreeBuilt
  /\ Tree.nodeMap.keys = <<"a", "b">>
  /\ Roots(Tree) = <<"b", "a">>
  /\ StartOrZero(NodeOf(Tree, "b")) < StartOrZero(NodeOf(Tree, "a"))

(***************************************************************************)
(* C5: an indexed step whose parent_step_id is set and names an indexed    *)
(* step is a child of exactly that step, whatever its interaction_id; and  *)
(* a(start 1), b(parent a, start 0), c(parent a, start 2), the order of    *)
(* the starts 10, 5, 20, gives root -> a -> [b, c].                        *)
(***************************************************************************)
ScenarioABC ==
  <<TreeStep("a", NULL, NULL, 1), TreeStep("b", "a", NULL, 0), TreeStep("c", "a", NULL, 2)>>

C5_AttachedToParent ==
  TreeBuilt =>
    /\ \A k \in Keys(Tree) :
         HasResolvableParent(Tree, k) =>
           IsChildOfExactly(Tree, k, NodeOf(Tree, k).parent_step_id)
    /\ steps = ScenarioABC =>
         /\ Roots(Tree) = <<"a">>
         /\ NodeOf(Tree, "a").children = <<"b", "c">>
         /\ NodeOf(Tree, "b").children = <<>>
         /\ NodeOf(Tree, "c").children = <<>>

\* the scenario was built
C5_Witness == TreeBuilt /\ steps = ScenarioABC

(***************************************************************************)
(* C6: an indexed step with no resolvable parent_step_id whose             *)
(* interaction_id is set and differs from its id is a child of exactly the *)
(* step with that id when one is indexed and a forest root when none is;   *)
(* with interaction_id equal to its id, or without one, it is a forest     *)
(* root.                                                                   *)
(***************************************************************************)
C6_InteractionFallback ==
  TreeBuilt =>
    \A k \in Keys(Tree) :
      ~HasResolvableParent(Tree, k) =>
        LET ia == NodeOf(Tree, k).interaction_id
        IN  IF Truthy(ia) /\ ia # k
            THEN IF ia \in Keys(Tree)
                 THEN IsChildOfExactly(Tree, k, ia)
                 ELSE IsForestRoot(Tree, k)
            ELSE IsForestRoot(Tree, k)

\* a tree built from a (its own interaction), b (interaction a) and c (its
\* interaction a grouping label no step has as id): a and c are roots, b is
\* under a
C6_Witness ==
  /\ TreeBuilt
  /\ Len(steps) = 3
  /\ steps[1] = TreeStep("a", NULL, "a", 0)
  /\ steps[2].id = "b" /\ steps[2].parent_step_id = NULL /\ steps[2].interaction_id = "a"
  /\ steps[3].id = "c" /\ steps[3].parent_step_id = NULL
  /\ steps[3].interaction_id = GroupingLabel
  /\ Range(Roots(Tree)) = {"a", "c"}
  /\ NodeOf(Tree, "a").children = <<"b">>

(***************************************************************************)
(* C7: the returned tree has exactly one top-level node, the synthetic     *)
(* root with id "root" and no start time, whose children are exactly the   *)
(* forest roots (the indexed nodes that are no node's child), each once;   *)
(* the index holds one entry per distinct input step id, keyed by it, and  *)
(* none of its entries is the synthetic root.                              *)
(***************************************************************************)
C7_SingleSyntheticRoot ==
  TreeBuilt =>
    /\ Len(Tree.tree) = 1
    /\ Tree.tree[1].id = "root"
    /\ Tree.tree[1].start_ns = NoStart
    /\ Range(Roots(Tree)) = {k \in Keys(Tree) : ParentsOf(Tree, k) = {}}
    /\ \A k \in Range(Roots(Tree)) : Count(Roots(Tree), k) = 1
    /\ Keys(Tree) = {steps[i].id : i \in 1..Len(steps)}
    /\ Len(Tree.nodeMap.keys) = Cardinality(Keys(Tree))
    /\ \A i \in 1..Len(Tree.nodeMap.keys) :
         /\ Tree.nodeMap.val[i].id = Tree.nodeMap.keys[i]
         /\ Tree.nodeMap.val[i] # Tree.tree[1]

\* a tree built from three steps of which two share an id
C7_Witness ==
  /\ TreeBuilt
  /\ Len(steps) = 3
  /\ steps[1].id = steps[3].id
  /\ steps[2].id # steps[1].id
  /\ Len(Tree.nodeMap.keys) = 2
  /\ Len(Roots(Tree)) = 2

(***************************************************************************)
(* C8: round trip.  Building the tree again from the depth-first           *)
(* flattening of the tree gives every indexed step that had a resolvable   *)
(* parent the same parent.                                                 *)
(***************************************************************************)
C8_RoundTripKeepsParents ==
  Reconstructed =>
    \A k \in Keys(Tree) :
      HasResolvableParent(Tree, k) =>
        /\ k \in Keys(Rebuilt)
        /\ IsChildOfExactly(Rebuilt, k, NodeOf(Tree, k).parent_step_id)

(***************************************************************************)
(* buildSpanGraph(spans): one node per span name, one edge per             *)
(* "<parent name>-><name>" key.                                            *)
(***************************************************************************)
MaxSeeds == 2

NODE_COLUMN_SPACING == 280
NODE_ROW_SPACING == 180

TypeSet == {"ROOT", "LLM_CALL", "TOOL_CALL", "FUNCTION_CALL"}

typeColumns(t) ==
  CASE t = "ROOT" -> 0
    [] t = "LLM_CALL" -> 1
    [] t = "TOOL_CALL" -> 2
    [] t = "FUNCTION_CALL" -> 3

spanTypeToOklch(t) ==
  CASE t = "LLM_CALL" -> "oklch(59.6% 0.145 163.225)"
    [] t = "FUNCTION_CALL" -> "oklch(51.1% 0.262 276.966)"
    [] t = "TOOL_CALL" -> "oklch(60.9% 0.126 221.723)"
    [] t = "ROOT" -> "oklch(43.9% 0 0)"
    [] OTHER -> "oklch(60.9% 0.126 221.723)"

\* `span?.span_type ?? LLM_CALL`
TypeOrDefault(span) == IF span.span_type = NULL THEN "LLM_CALL" ELSE span.span_type

\* the span names of the model, in the order of String.prototype.localeCompare;
\* a name is any string, the arrow of the edge key included
Names == <<"p", "p->p", "p->p->p", "q">>
NameSet == Range(Names)
NameIndex(name) == CHOOSE i \in 1..Len(Names) : Names[i] = name

\* two spellings of one text, different strings that are canonically
\* equivalent: the letter U+00E9, and e followed by the combining accent U+0301
Composed == "<U+00E9>"
Decomposed == "e<U+0301>"

\* the place of a name in the collation order of the locale: canonically
\* equivalent strings share a place (e with an accent sorts before p)
CollationKey(name) ==
  IF name \in {Composed, Decomposed} THEN 0 ELSE NameIndex(name)

\* nameA.localeCompare(nameB): a collation comparison, 0 for strings the
\* collation does not tell apart
localeCompare(nameA, nameB) ==
  IF CollationKey(nameA) < CollationKey(nameB) THEN -1
  ELSE IF CollationKey(nameA) > CollationKey(nameB) THEN 1 ELSE 0

\* the k-th crypto.randomUUID() of a build: fresh in the build, and different
\* from every value of a build that draws from another random source
randomUUID(seed, k) == "uuid" \o ToString(seed) \o "." \o ToString(k)

\* mutant: a group is replaced by its latest span instead of growing
IndexSpans_LastOnly(spans) ==
  LET n == Len(spans)
      idx[i \in 0..n] ==
        IF i = 0 THEN [byId |-> EmptyMap, byName |-> EmptyMap]
        ELSE LET span == spans[i]
                 prev == idx[i - 1]
             IN  [byId |-> MapSet(prev.byId, span.span_id, span),
                  byName |-> MapSet(prev.byName, span.name, <<span>>)]
  IN  idx[n]

\* first loop: spansById (last span of an id wins) and spansByName (spans of
\* a name in input order, names in order of first use)
IndexSpans(spans) ==
  LET n == Len(spans)
      idx[i \in 0..n] ==
        IF i = 0 THEN [byId |-> EmptyMap, byName |-> EmptyMap]
        ELSE LET span == spans[i]
                 prev == idx[i - 1]
                 named == IF MapHas(prev.byName, span.name)
                          THEN prev.byName
                          ELSE MapSet(prev.byName, span.name, <<>>)
             IN  [byId |-> MapSet(prev.byId, span.span_id, span),
                  byName |-> MapSet(named, span.name, Append(MapGet(named, span.name), span))]
  IN  idx[n]

\* the reduce over a group: the least start time, null times skipped, `?? 0`
EarliestStart(group) ==
  LET ts == {group[i].start_time : i \in {j \in 1..Len(group) : group[j].start_time # NoStart}}
  IN  IF ts = {} THEN 0 ELSE CHOOSE t \in ts : \A u \in ts : t <= u

\* the comparator of groupedEntries; an entry is <<name, spans>>
CompareEntries(ea, eb) ==
  LET columnDiff == typeColumns(TypeOrDefault(ea[2][1])) - typeColumns(TypeOrDefault(eb[2][1]))
      startA == EarliestStart(ea[2])
      startB == EarliestStart(eb[2])
  IN  IF columnDiff # 0 THEN columnDiff
      ELSE IF startA # startB THEN startA - startB
      ELSE localeCompare(ea[1], eb[1])

\* Array.prototype.sort with the comparator: x goes behind the entries e
\* with CompareEntries(e, x) <= 0
InsertEntry(sorted, x) ==
  LET p == Cardinality({i \in 1..Len(sorted) : CompareEntries(sorted[i], x) <= 0})
  IN  SubSeq(sorted, 1, p) \o <<x>> \o SubSeq(sorted, p + 1, Len(sorted))

SortEntries(entries) ==
  LET ins[i \in 0..Len(entries)] ==
        IF i = 0 THEN <<>> ELSE InsertEntry(ins[i - 1], entries[i])
  IN  ins[Len(entries)]

\* Array.from(spansByName.entries()).sort(...)
GroupedEntries(byName) ==
  SortEntries([i \in 1..Len(byName.keys) |-> <<byName.keys[i], byName.val[i]>>])

\* mutant: the row counter of a type is never advanced
LayoutNodes_RowNotAdvanced(entries) ==
  LET n == Len(entries)
      lay[i \in 0..n] ==
        IF i = 0 THEN [nodes |-> <<>>, rowsByType |-> [t \in TypeSet |-> 0]]
        ELSE LET prev == lay[i - 1]
                 name == entries[i][1]
                 groupedSpans == entries[i][2]
                 nodeType == TypeOrDefault(groupedSpans[1])
                 column == typeColumns(nodeType)
                 currentRow == prev.rowsByType[nodeType]
             IN  [nodes |-> Append(prev.nodes,
                      [id |-> name, type |-> nodeType,
                       position |-> [x |-> column * NODE_COLUMN_SPACING,
                                     y |-> currentRow * NODE_ROW_SPACING],
                       data |-> [name |-> name, interactions |-> groupedSpans,
                                 type |-> nodeType]]),
                  rowsByType |-> prev.rowsByType]
  IN  lay[n].nodes

\* groupedEntries.map(...) with the rowsByType counter
LayoutNodes(entries) ==
  LET n == Len(entries)
      lay[i \in 0..n] ==
        IF i = 0 THEN [nodes |-> <<>>, rowsByType |-> [t \in TypeSet |-> 0]]
        ELSE LET prev == lay[i - 1]
                 name == entries[i][1]
                 groupedSpans == entries[i][2]
                 nodeType == TypeOrDefault(groupedSpans[1])
                 column == typeColumns(nodeType)
                 currentRow == prev.rowsByType[nodeType]
             IN  [nodes |-> Append(prev.nodes,
                      [id |-> name, type |-> nodeType,
                       position |-> [x |-> column * NODE_COLUMN_SPACING,
                                     y |-> currentRow * NODE_ROW_SPACING],
                       data |-> [name |-> name, interactions |-> groupedSpans,
                                 type |-> nodeType]]),
                  rowsByType |-> [prev.rowsByType EXCEPT ![nodeType] = currentRow + 1]]
  IN  lay[n].nodes

\* mutant: the guard `if (!parent) return` is missing, reading the name of an
\* undefined parent is a TypeError
AddEdge_NoParentGuard(st, span, idx, seed) ==
  IF st.threw \/ ~Truthy(span.parent_span_id) THEN st
  ELSE IF ~MapHas(idx.byId, span.parent_span_id) THEN [st EXCEPT !.threw = TRUE]
  ELSE LET parent == MapGet(idx.byId, span.parent_span_id)
           edgeId == parent.name \o "->" \o span.name
           count == (IF MapHas(st.edgeCount, edgeId) THEN MapGet(st.edgeCount, edgeId) ELSE 0) + 1
           counted == [st EXCEPT !.edgeCount = MapSet(@, edgeId, count)]
       IN  IF MapHas(st.edgeMap, edgeId) THEN counted
           ELSE [counted EXCEPT
                   !.uuids = @ + 1,
                   !.edgeMap = MapSet(@, edgeId,
                     [id |-> randomUUID(seed, st.uuids + 1) \o "-" \o edgeId,
                      source |-> parent.name, target |-> span.name, label |-> NULL,
                      stroke |-> spanTypeToOklch(parent.span_type)])]

\* mutant: every contributing span sets a new edge under its key
AddEdge_NoDedup(st, span, idx, seed) ==
  IF st.threw \/ ~Truthy(span.parent_span_id) THEN st
  ELSE IF ~MapHas(idx.byId, span.parent_span_id) THEN st
  ELSE LET parent == MapGet(idx.byId, span.parent_span_id)
           edgeId == parent.name \o "->" \o span.name
           count == (IF MapHas(st.edgeCount, edgeId) THEN MapGet(st.edgeCount, edgeId) ELSE 0) + 1
       IN  [st EXCEPT
              !.edgeCount = MapSet(@, edgeId, count),
              !.uuids = @ + 1,
              !.edgeMap = MapSet_AlwaysAppend(@, edgeId,
                [id |-> randomUUID(seed, st.uuids + 1) \o "-" \o edgeId,
                 source |-> parent.name, target |-> span.name, label |-> NULL,
                 stroke |-> spanTypeToOklch(parent.span_type)])]

(***************************************************************************)
(* Edge loop, one span: st = [edgeMap, edgeCount, uuids, threw], uuids the *)
(* number of randomUUID calls so far.                                      *)
(***************************************************************************)
AddEdge(st, span, idx, seed) ==
  IF st.threw \/ ~Truthy(span.parent_span_id) THEN st
  ELSE IF ~MapHas(idx.byId, span.parent_span_id) THEN st
  ELSE LET parent == MapGet(idx.byId, span.parent_span_id)
       IN  IF ~MapHas(idx.byName, parent.name) \/ ~MapHas(idx.byName, span.name) THEN st
           ELSE LET edgeId == parent.name \o "->" \o span.name
                    count == (IF MapHas(st.edgeCount, edgeId)
                              THEN MapGet(st.edgeCount, edgeId) ELSE 0) + 1
                    counted == [st EXCEPT !.edgeCount = MapSet(@, edgeId, count)]
                IN  IF MapHas(st.edgeMap, edgeId) THEN counted
                    ELSE [counted EXCEPT
                            !.uuids = @ + 1,
                            !.edgeMap = MapSet(@, edgeId,
                              [id |-> randomUUID(seed, st.uuids + 1) \o "-" \o edgeId,
                               source |-> parent.name, target |-> span.name,
                               label |-> NULL,
                               stroke |-> spanTypeToOklch(parent.span_type)])]

AddEdges(spans, idx, seed) ==
  LET n == Len(spans)
      acc[i \in 0..n] ==
        IF i = 0
        THEN [edgeMap |-> EmptyMap, edgeCount |-> EmptyMap, uuids |-> 0, threw |-> FALSE]
        ELSE AddEdge(acc[i - 1], spans[i], idx, seed)
  IN  acc[n]

\* mutant: the label is set from the first invocation on (`count > 0`)
LabelEdges_FromOne(st) ==
  LET n == Len(st.edgeCount.keys)
      lab[i \in 0..n] ==
        IF i = 0 THEN st.edgeMap
        ELSE LET edgeId == st.edgeCount.keys[i]
                 count == st.edgeCount.val[i]
             IN  IF count > 0
                 THEN MapSet(lab[i - 1], edgeId,
                        [MapGet(lab[i - 1], edgeId) EXCEPT
                           !.label = ToString(count) \o " invocations"])
                 ELSE lab[i - 1]
  IN  lab[n]

\* edgeCount.forEach: label the edges invoked more than once
LabelEdges(st) ==
  LET n == Len(st.edgeCount.keys)
      lab[i \in 0..n] ==
        IF i = 0 THEN st.edgeMap
        ELSE LET edgeId == st.edgeCount.keys[i]
                 count == st.edgeCount.val[i]
             IN  IF count > 1
                 THEN MapSet(lab[i - 1], edgeId,
                        [MapGet(lab[i - 1], edgeId) EXCEPT
                           !.label = ToString(count) \o " invocations"])
                 ELSE lab[i - 1]
  IN  lab[n]

\* seed names the random source crypto.randomUUID draws from
buildSpanGraph(spans, seed) ==
  LET idx == IndexSpans(spans)
  IN  IF Len(idx.byName.keys) = 0 THEN [nodes |-> <<>>, edges |-> <<>>, threw |-> FALSE]
      ELSE LET nodes == LayoutNodes(GroupedEntries(idx.byName))
               st == AddEdges(spans, idx, seed)
           IN  IF st.threw THEN [nodes |-> <<>>, edges |-> <<>>, threw |-> TRUE]
               ELSE [nodes |-> nodes, edges |-> LabelEdges(st).val, threw |-> FALSE]

(***************************************************************************)
(* Input span collections of the graph specification, ids up to renaming.  *)
(***************************************************************************)
Span(id, parent, name, type, start) ==
  [span_id |-> id, parent_span_id |-> parent, name |-> name, span_type |-> type,
   start_time |-> start]

GraphTypeSet == {"LLM_CALL", "TOOL_CALL"}

GraphSpanSet == {Span(id, p, nm, t, NoStart) : id \in IdSet, p \in RefSet, nm \in NameSet, t \in GraphTypeSet}

CanonicalSpanIds(ss) ==
  \A i \in 1..Len(ss) :
    IdIndex(ss[i].span_id) <= Cardinality({ss[k].span_id : k \in 1..(i - 1)}) + 1

InitGraph ==
  /\ \E n \in 0..MaxSteps : \E ss \in [1..n -> GraphSpanSet] :
       CanonicalSpanIds(ss) /\ steps = ss
  /\ treeOut = NotRun
  /\ rebuilt = NotRun
  /\ graphOut = NotRun
  /\ NoView

\* the agent graph view builds the graph of the span collection
BuildGraph ==
  /\ graphOut = NotRun
  /\ \E seed \in 1..MaxSeeds : graphOut' = <<buildSpanGraph(steps, seed)>>
  /\ UNCHANGED <<steps, treeOut, rebuilt>>
  /\ UNCHANGED viewVars

NextGraph == BuildGraph

GraphSpec == InitGraph /\ [][NextGraph]_vars

(***************************************************************************)
(* Input span collections of the layout specification: spans without       *)
(* parents, of every type (none included), start time and name.            *)
(***************************************************************************)
LayoutTypeSet == TypeSet \cup {NULL}

LayoutNameSet == {Names[1], Composed, Decomposed}

LayoutSpanSet ==
  {Span(StepIds[1], NULL, nm, t, s) : nm \in LayoutNameSet, t \in LayoutTypeSet, s \in StartSet}

InitLayout ==
  /\ \E n \in 0..MaxSteps : \E ss \in [1..n -> LayoutSpanSet] : steps = ss
  /\ treeOut = NotRun
  /\ rebuilt = NotRun
  /\ graphOut = NotRun
  /\ NoView

LayoutSpec == InitLayout /\ [][NextGraph]_vars

(***************************************************************************)
(* Reading the output of buildSpanGraph.                                   *)
(***************************************************************************)
GraphBuilt == graphOut # NotRun
Graph == graphOut[1]

\* the input span the id index holds for an id: the last span with that id
SpanById(id) ==
  steps[CHOOSE i \in 1..Len(steps) :
          /\ steps[i].span_id = id
          /\ \A j \in (i + 1)..Len(steps) : steps[j].span_id # id]

\* span i names a parent id that some input span has
ParentResolves(i) ==
  /\ Truthy(steps[i].parent_span_id)
  /\ \E j \in 1..Len(steps) : steps[j].span_id = steps[i].parent_span_id

KeyOfNames(parentName, childName) == parentName \o "->" \o childName

\* the edge key of a span whose parent resolves
KeyOfSpan(i) == KeyOfNames(SpanById(steps[i].parent_span_id).name, steps[i].name)

\* the number of input spans that contribute to an edge key
Invocations(key) ==
  Cardinality({i \in 1..Len(steps) : ParentResolves(i) /\ KeyOfSpan(i) = key})

EdgeKey(e) == KeyOfNames(e.source, e.target)

(***************************************************************************)
(* C9: every edge stands for N >= 1 input spans with a resolvable parent   *)
(* whose (parent name, name) pair maps to the edge's key; it carries the   *)
(* label "N invocations" when N > 1 and no label when N = 1.               *)
(***************************************************************************)
C9_InvocationLabel ==
  GraphBuilt =>
    \A i \in 1..Len(Graph.edges) :
      LET e == Graph.edges[i]
          N == Invocations(EdgeKey(e))
      IN  /\ N >= 1
          /\ e.label = (IF N > 1 THEN ToString(N) \o " invocations" ELSE NULL)

\* a graph with an edge invoked once, without label, and an edge invoked
\* twice, labelled "2 invocations"
C9_Witness ==
  /\ GraphBuilt
  /\ Len(Graph.edges) = 2
  /\ Invocations(EdgeKey(Graph.edges[1])) = 1 /\ Graph.edges[1].label = NULL
  /\ Invocations(EdgeKey(Graph.edges[2])) = 2 /\ Graph.edges[2].label = "2 invocations"

(***************************************************************************)
(* C10: the edges are one per distinct edge key among the spans whose      *)
(* parent id resolves, however many spans share a key; spans with an       *)
(* absent or dangling parent id add no edge, and the build raises no       *)
(* error.                                                                  *)
(***************************************************************************)
C10_OneEdgePerKey ==
  GraphBuilt =>
    LET keys == {KeyOfSpan(i) : i \in {j \in 1..Len(steps) : ParentResolves(j)}}
    IN  /\ ~Graph.threw
        /\ {EdgeKey(Graph.edges[i]) : i \in 1..Len(Graph.edges)} = keys
        /\ Len(Graph.edges) = Cardinality(keys)

\* a graph built from a span named p whose parent id is dangling and two
\* spans named q under it: the two share the key p->q, the graph has one edge
C10_Witness ==
  /\ GraphBuilt
  /\ Len(steps) = 3
  /\ steps[1].span_id = "a" /\ steps[1].parent_span_id = "c" /\ steps[1].name = "p"
  /\ steps[2].span_id = "b" /\ steps[2].parent_span_id = "a" /\ steps[2].name = "q"
  /\ steps[3].span_id = "b" /\ steps[3].parent_span_id = "a" /\ steps[3].name = "q"
  /\ Len(Graph.edges) = 1
  /\ ~Graph.threw

(***************************************************************************)
(* C11: self-edges are preserved.  Whenever the parent id of a span        *)
(* resolves to a span of the same name, the output has an edge whose       *)
(* source and target are both that name.                                   *)
(***************************************************************************)
C11_SelfEdgePreserved ==
  GraphBuilt =>
    \A i \in 1..Len(steps) :
      (ParentResolves(i) /\ SpanById(steps[i].parent_span_id).name = steps[i].name) =>
        \E j \in 1..Len(Graph.edges) :
          /\ Graph.edges[j].source = steps[i].name
          /\ Graph.edges[j].target = steps[i].name

\* the input spans of a name, in input order
SpansNamed(name) == SelectSeq(steps, LAMBDA span : span.name = name)

IsBefore(n1, n2) ==
  LET c1 == typeColumns(n1.type)
      c2 == typeColumns(n2.type)
      s1 == EarliestStart(n1.data.interactions)
      s2 == EarliestStart(n2.data.interactions)
  IN  \/ c1 < c2
      \/ c1 = c2 /\ s1 < s2
      \/ c1 = c2 /\ s1 = s2 /\ localeCompare(n1.id, n2.id) < 0

(***************************************************************************)
(* C13: the nodes are returned in the order of the composite key (rank of  *)
(* the type of the group's first span, ROOT < LLM_CALL < TOOL_CALL <       *)
(* FUNCTION_CALL; earliest start of the group, missing times skipped, 0    *)
(* when all are missing; name), and the key orders the groups strictly: of *)
(* two nodes the earlier one is strictly before the later one by key.      *)
(***************************************************************************)
C13_NodesOrderedByKey ==
  GraphBuilt =>
    /\ typeColumns("ROOT") < typeColumns("LLM_CALL")
    /\ typeColumns("LLM_CALL") < typeColumns("TOOL_CALL")
    /\ typeColumns("TOOL_CALL") < typeColumns("FUNCTION_CALL")
    /\ \A i, j \in 1..Len(Graph.nodes) :
         i < j => IsBefore(Graph.nodes[i], Graph.nodes[j])

(***************************************************************************)
(* The test case views.  testCase is <<the test case useGetTestCase        *)
(* returned>>, route <<the route of the page>>, view <<what the component  *)
(* rendered>> once it has rendered.                                        *)
(***************************************************************************)
MaxRefs == 3

\* a raw judge input: shape tells its keys (an interaction has a steps key,
\* a group an interactions key, a lone step neither), id is its id (NULL
\* when it has none), tags tells whether every value of its tags is a string
RawInput(shape, id, tags) == [shape |-> shape, id |-> id, tags |-> tags]

\* an annotation test case; a nullish annotation is <<>>, a present one <<a>>
TestCase(type, granularity, raw, raws, hasJudgeInput, references, ai, human) ==
  [test_case_type |-> type, granularity |-> granularity,
   raw_judge_input |-> raw, raw_judge_inputs |-> raws,
   has_judge_input |-> hasJudgeInput, references |-> references,
   ai_annotation |-> ai, human_annotation |-> human]

\* the route: the judgeInputIndex parameter (NULL when the path has none)
\* and the tab the path names
Route(judgeInputIndex, tab) == [judgeInputIndex |-> judgeInputIndex, tab |-> tab]

TC == testCase[1]
Rendered == view # NotRun
View == view[1]

\* Array.prototype.indexOf: the 0-based place of x, -1 when absent
IndexOf(seq, x) ==
  IF \E i \in 1..Len(seq) : seq[i] = x
  THEN (CHOOSE i \in 1..Len(seq) : seq[i] = x /\ \A j \in 1..(i - 1) : seq[j] # x) - 1
  ELSE -1

hierarchy == <<"group", "interaction", "step">>

\* mutant: a reference as deep as the test case is shown as well
shouldShowReference_NotStrict(testCaseGranularity, referenceType) ==
  IF referenceType = "step" THEN TRUE
  ELSE IndexOf(hierarchy, referenceType) >= IndexOf(hierarchy, testCaseGranularity)

shouldShowReference(testCaseGranularity, referenceType) ==
  IF referenceType = "step" THEN TRUE
  ELSE IndexOf(hierarchy, referenceType) > IndexOf(hierarchy, testCaseGranularity)

\* the action cell of a reference row: called, whether shouldShowReference
\* was evaluated; navigable, its result; button, whether "View Reference"
\* is rendered
ReferenceCell(granularity, referenceType) ==
  IF ~Truthy(granularity)
  THEN [called |-> FALSE, navigable |-> FALSE, button |-> FALSE]
  ELSE [called |-> TRUE,
        navigable |-> shouldShowReference(granularity, referenceType),
        button |-> shouldShowReference(granularity, referenceType)]

\* the known values, a value outside them, and the empty string
KnownKinds == {"step", "interaction", "group"}
GranularityValues == KnownKinds \cup {"trace", ""}
ReferenceKinds == KnownKinds \cup {"span"}

NoRaw == RawInput("step", "s", "strings")

InitReferences ==
  /\ \E g \in GranularityValues : \E n \in 0..MaxRefs : \E refs \in [1..n -> ReferenceKinds] :
       testCase = <<TestCase("pointwise", g, NoRaw, <<>>, TRUE, refs, <<>>, <<>>)>>
  /\ route = <<Route(NULL, "trace")>>
  /\ view = NotRun
  /\ steps = <<>> /\ treeOut = NotRun /\ rebuilt = NotRun /\ graphOut = NotRun

\* ViewReferences renders the table of references, one action cell per row
ViewReferences ==
  /\ view = NotRun
  /\ view' = <<[cells |-> [i \in 1..Len(TC.references) |->
                             ReferenceCell(TC.granularity, TC.references[i])]]>>
  /\ UNCHANGED <<testCase, route>>
  /\ UNCHANGED buildVars

NextReferences == ViewReferences

ReferenceSpec == InitReferences /\ [][NextReferences]_vars

\* k is strictly deeper than g in the order group < interaction < step
StrictlyDeeper(k, g) ==
  \/ g = "group" /\ k \in {"interaction", "step"}
  \/ g = "interaction" /\ k = "step"

(***************************************************************************)
(* C14: for a granularity g and a reference kind k among step,             *)
(* interaction and group, the reference is navigable exactly when k is     *)
(* step or k is strictly deeper than g in group < interaction < step;      *)
(* (group, step) and (group, interaction) are navigable, (interaction,     *)
(* interaction) and (step, interaction) are not.                           *)
(***************************************************************************)
C14_NavigableIffDeeper ==
  /\ Rendered =>
       \A i \in 1..Len(View.cells) :
         (TC.granularity \in KnownKinds /\ TC.references[i] \in KnownKinds) =>
           /\ View.cells[i].called
           /\ View.cells[i].navigable =
                (TC.references[i] = "step" \/ StrictlyDeeper(TC.references[i], TC.granularity))
           /\ View.cells[i].button = View.cells[i].navigable
  /\ shouldShowReference("group", "step")
  /\ shouldShowReference("group", "interaction")
  /\ ~shouldShowReference("interaction", "interaction")
  /\ ~shouldShowReference("step", "interaction")

\* the references of a test case of granularity interaction were rendered:
\* the step is navigable, the interaction and the group are not
C14_Witness ==
  /\ Rendered
  /\ TC.granularity = "interaction"
  /\ TC.references = <<"step", "interaction", "group">>
  /\ View.cells[1].button /\ ~View.cells[2].button /\ ~View.cells[3].button

(***************************************************************************)
(* C15: a reference is not navigable whenever the granularity is not one   *)
(* of step, interaction, group or the reference kind is not one of them.   *)
(***************************************************************************)
C15_UnknownRejected ==
  Rendered =>
    \A i \in 1..Len(View.cells) :
      (TC.granularity \notin KnownKinds \/ TC.references[i] \notin KnownKinds) =>
        /\ ~View.cells[i].navigable
        /\ ~View.cells[i].button

(***************************************************************************)
(* The trace tab of a test case: TestCaseDetails on the left, TestCaseTrace *)
(* on the right.  status is the status of the useGetInteractionForStep     *)
(* query: "pending" until a response arrived (a disabled query stays       *)
(* pending), then "success" or "error".                                    *)
(***************************************************************************)
MaxInputs == 2

isSingleStep(interactionTrace) ==
  interactionTrace.shape # "interaction" /\ interactionTrace.shape # "group"

\* the decimal strings of the model
IndexRange == (0 - 1)..(MaxInputs + 1)

\* parseInt(s): the leading integer of s, <<>> (NaN) when s has none
parseInt(s) ==
  IF \E k \in IndexRange : ToString(k) = s
  THEN <<CHOOSE k \in IndexRange : ToString(k) = s>>
  ELSE IF s = "1x" THEN <<1>>
  ELSE <<>>

\* interactionTraces[index]: <<the element>>, <<>> for undefined
ElementAt(interactionTraces, index) ==
  IF index # <<>> /\ index[1] >= 0 /\ index[1] < Len(interactionTraces)
  THEN <<interactionTraces[index[1] + 1]>>
  ELSE <<>>

\* mutant: the ranking view is chosen by the presence of the judge inputs
TestCaseDetails_ByField(tc) ==
  IF tc.test_case_type = "ranking" /\ tc.has_judge_input
  THEN [handler |-> "ViewRankingTestCase", content |-> "columns"]
  ELSE [handler |-> "ViewPointwiseTestCase",
        content |-> IF tc.has_judge_input THEN "judge-input" ELSE "error-note"]

TestCaseDetails(tc) ==
  IF tc.test_case_type = "pointwise"
  THEN [handler |-> "ViewPointwiseTestCase",
        content |-> IF tc.has_judge_input THEN "judge-input" ELSE "error-note"]
  ELSE [handler |-> "ViewRankingTestCase",
        content |-> IF tc.has_judge_input THEN "columns" ELSE "error-note"]

\* the pointwise trace view.  tree[0] is the synthetic root, so the
\* "No spans available." branch is never taken
TraceSidebar(interactionTrace, tc, status) ==
  LET isSingleStepTrace == isSingleStep(interactionTrace)
      stepId == IF isSingleStepTrace THEN interactionTrace.id ELSE NULL
      shouldFetchInteraction ==
        isSingleStepTrace /\ Truthy(stepId) /\ tc.granularity = "step"
  IN  [handler |-> "TraceSidebar", index |-> <<>>, viewed |-> <<interactionTrace>>,
       fetchEnabled |-> shouldFetchInteraction, status |-> status,
       outcome |-> IF shouldFetchInteraction /\ status = "pending" THEN "skeleton"
                   ELSE IF status = "error" THEN "error" ELSE "tree"]

\* the ranking trace view.  `"steps" in undefined` in isSingleStep is a
\* TypeError: the render throws before the query hook is reached
PairwiseTraceSidebar(interactionTraces, tc, rt, status) ==
  LET index == IF Truthy(rt.judgeInputIndex) THEN parseInt(rt.judgeInputIndex) ELSE <<0>>
      element == ElementAt(interactionTraces, index)
  IN  IF element = <<>>
      THEN [handler |-> "PairwiseTraceSidebar", index |-> index, viewed |-> <<>>,
            fetchEnabled |-> FALSE, status |-> status, outcome |-> "TypeError"]
      ELSE LET interactionTrace == element[1]
               isSingleStepTrace == isSingleStep(interactionTrace)
               stepId == IF isSingleStepTrace THEN interactionTrace.id ELSE NULL
           IN  [handler |-> "PairwiseTraceSidebar", index |-> index,
                viewed |-> <<interactionTrace>>,
                fetchEnabled |-> isSingleStepTrace /\ Truthy(stepId), status |-> status,
                outcome |-> IF status = "pending" THEN "skeleton"
                            ELSE IF status = "error" THEN "error" ELSE "tree"]

TestCaseTrace(tc, rt, status) ==
  IF tc.test_case_type = "ranking"
  THEN PairwiseTraceSidebar(tc.raw_judge_inputs, tc, rt, status)
  ELSE TraceSidebar(tc.raw_judge_input, tc, status)

RawShapes == {"step", "interaction", "group"}
RawIds == {"s", ""}
RawInputSet == {RawInput(sh, id, "strings") : sh \in RawShapes, id \in RawIds}
RouteIndexValues == {NULL, "", "abc", "1x"} \cup {ToString(k) : k \in IndexRange}

InitTrace ==
  /\ \E g \in KnownKinds : \E hasJudge \in BOOLEAN :
       \/ \E raw \in RawInputSet :
            testCase = <<TestCase("pointwise", g, raw, <<>>, hasJudge, <<>>, <<>>, <<>>)>>
       \/ \E n \in 0..MaxInputs : \E raws \in [1..n -> RawInputSet] :
            testCase = <<TestCase("ranking", g, NoRaw, raws, hasJudge, <<>>, <<>>, <<>>)>>
  /\ \E ix \in RouteIndexValues : route = <<Route(ix, "trace")>>
  /\ view = NotRun
  /\ steps = <<>> /\ treeOut = NotRun /\ rebuilt = NotRun /\ graphOut = NotRun

\* first render of the page
RenderTestCase ==
  /\ view = NotRun
  /\ view' = <<[details |-> TestCaseDetails(TC),
                trace |-> TestCaseTrace(TC, route[1], "pending")]>>
  /\ UNCHANGED <<testCase, route>>
  /\ UNCHANGED buildVars

\* the interaction fetch returns the full interaction; the view renders again
InteractionFetched ==
  /\ Rendered
  /\ View.trace.fetchEnabled /\ View.trace.status = "pending"
  /\ view' = <<[View EXCEPT !.trace = TestCaseTrace(TC, route[1], "success")]>>
  /\ UNCHANGED <<testCase, route>>
  /\ UNCHANGED buildVars

\* the interaction fetch fails; the view renders again
InteractionFetchFailed ==
  /\ Rendered
  /\ View.trace.fetchEnabled /\ View.trace.status = "pending"
  /\ view' = <<[View EXCEPT !.trace = TestCaseTrace(TC, route[1], "error")]>>
  /\ UNCHANGED <<testCase, route>>
  /\ UNCHANGED buildVars

\* the annotator picks another judge input in the select of the ranking
\* view: navigation to its index and a render with the query of its step
SelectJudgeInput ==
  /\ Rendered
  /\ View.trace.handler = "PairwiseTraceSidebar"
  /\ View.trace.outcome # "TypeError"
  /\ \E i \in 0..(Len(TC.raw_judge_inputs) - 1) :
       /\ <<i>> # View.trace.index
       /\ LET rt == Route(ToString(i), route[1].tab)
              sameQuery == TC.raw_judge_inputs[i + 1] = View.trace.viewed[1]
              status == IF sameQuery THEN View.trace.status ELSE "pending"
          IN  /\ route' = <<rt>>
              /\ view' = <<[View EXCEPT !.trace = TestCaseTrace(TC, rt, status)]>>
  /\ UNCHANGED testCase
  /\ UNCHANGED buildVars

NextTrace ==
  RenderTestCase \/ InteractionFetched \/ InteractionFetchFailed \/ SelectJudgeInput

TraceSpec == InitTrace /\ [][NextTrace]_vars

\* the route names the decimal index k
SelectedIndex(k) == route[1].judgeInputIndex = ToString(k)

(***************************************************************************)
(* C16: in the ranking trace view of a test case with N raw judge inputs,  *)
(* a selected index outside [0, N) ends in an explicit OutOfRange failure: *)
(* the index is not replaced by a valid one and no trace is shown.         *)
(***************************************************************************)
C16_OutOfRangeRaised ==
  Rendered =>
    \A k \in IndexRange :
      (/\ TC.test_case_type = "ranking"
       /\ SelectedIndex(k)
       /\ (k < 0 \/ k >= Len(TC.raw_judge_inputs))) =>
        /\ View.trace.outcome = "OutOfRange"
        /\ View.trace.index = <<k>>
        /\ View.trace.viewed = <<>>

(***************************************************************************)
(* C17: the fetch of the full interaction is issued only when the raw      *)
(* judge input viewed is a lone step and the granularity of the test case  *)
(* is step, in the pointwise and in the ranking trace view.                *)
(***************************************************************************)
C17_FetchOnlyForStepGranularity ==
  Rendered =>
    (View.trace.fetchEnabled =>
       /\ View.trace.viewed # <<>>
       /\ isSingleStep(View.trace.viewed[1])
       /\ TC.granularity = "step")

(***************************************************************************)
(* C18: the ranking views (pairwise trace view, per-item judge input       *)
(* columns) are chosen exactly for test_case_type ranking and the          *)
(* pointwise views exactly for pointwise, whether or not the judge input   *)
(* (judge inputs) is present.                                              *)
(***************************************************************************)
C18_DispatchOnType ==
  Rendered =>
    /\ (View.details.handler = "ViewRankingTestCase") = (TC.test_case_type = "ranking")
    /\ (View.details.handler = "ViewPointwiseTestCase") = (TC.test_case_type = "pointwise")
    /\ (View.trace.handler = "PairwiseTraceSidebar") = (TC.test_case_type = "ranking")
    /\ (View.trace.handler = "TraceSidebar") = (TC.test_case_type = "pointwise")

\* a ranking test case without judge inputs and with raw judge inputs was
\* rendered by the ranking views
C18_Witness ==
  /\ Rendered
  /\ TC.test_case_type = "ranking"
  /\ ~TC.has_judge_input
  /\ Len(TC.raw_judge_inputs) = 2
  /\ View.details.handler = "ViewRankingTestCase"
  /\ View.trace.handler = "PairwiseTraceSidebar"

(***************************************************************************)
(* The annotation tabs: TestCaseAnnotation shows the AI or the human       *)
(* annotation of the test case, by the tab the path names.  What           *)
(* ViewAnnotation renders is the set of its parts.                         *)
(***************************************************************************)
\* mutant: the skip flag is not looked at
ViewAnnotation_SkipIgnored(annotation) ==
  IF annotation = <<>> THEN {"no-annotation-note"}
  ELSE LET a == annotation[1]
       IN  (IF a.type = "categorical" THEN {"category"} ELSE {})
             \cup (IF a.type = "continuous" THEN {"score"} ELSE {})
             \cup (IF a.type = "ranking" THEN {"rankings"} ELSE {})
             \cup (IF Truthy(a.comment) THEN {"comment"} ELSE {})

ViewAnnotation(annotation) ==
  IF annotation = <<>> THEN {"no-annotation-note"}
  ELSE LET a == annotation[1]
       IN  IF a.skip
           THEN {"skipped-notice"} \cup (IF Truthy(a.comment) THEN {"comment"} ELSE {})
           ELSE (IF a.type = "categorical" THEN {"category"} ELSE {})
                  \cup (IF a.type = "continuous" THEN {"score"} ELSE {})
                  \cup (IF a.type = "ranking" THEN {"rankings"} ELSE {})
                  \cup (IF Truthy(a.comment) THEN {"comment"} ELSE {})

\* pathname.includes("ai-annotation"), then pathname.includes("human-annotation")
TestCaseAnnotation(tc, rt) ==
  IF rt.tab = "ai-annotation" THEN ViewAnnotation(tc.ai_annotation)
  ELSE IF rt.tab = "human-annotation" THEN ViewAnnotation(tc.human_annotation)
  ELSE {}

SpecType == {"ranking", "categorical", "continuous"}
CommentSet == {NULL, "", "text"}
Tabs == {"trace", "ai-annotation", "human-annotation"}

Annotation(type, skip, comment) == [type |-> type, skip |-> skip, comment |-> comment]

\* a nullish annotation, or a present one
AnnotationSet ==
  {<<>>} \cup {<<Annotation(t, sk, c)>> : t \in SpecType, sk \in BOOLEAN, c \in CommentSet}

InitAnnotation ==
  /\ \E ai \in AnnotationSet : \E human \in AnnotationSet :
       testCase = <<TestCase("pointwise", "step", NoRaw, <<>>, TRUE, <<>>, ai, human)>>
  /\ \E tab \in Tabs : route = <<Route(NULL, tab)>>
  /\ view = NotRun
  /\ steps = <<>> /\ treeOut = NotRun /\ rebuilt = NotRun /\ graphOut = NotRun

\* the tab content renders
RenderAnnotation ==
  /\ view = NotRun
  /\ view' = <<[parts |-> TestCaseAnnotation(TC, route[1])]>>
  /\ UNCHANGED <<testCase, route>>
  /\ UNCHANGED buildVars

NextAnnotation == RenderAnnotation

AnnotationSpec == InitAnnotation /\ [][NextAnnotation]_vars

\* the annotation of the tab shown: <<>> when nullish or when the tab shows none
ShownAnnotation ==
  IF route[1].tab = "ai-annotation" THEN TC.ai_annotation
  ELSE IF route[1].tab = "human-annotation" THEN TC.human_annotation
  ELSE <<>>

(***************************************************************************)
(* C19: for an annotation with skip = true the view renders neither        *)
(* category, score nor rankings, whatever the type; it renders the skipped *)
(* notice, and the comment exactly when the comment is not empty.          *)
(***************************************************************************)
C19_SkippedShowsNoResult ==
  Rendered =>
    ((ShownAnnotation # <<>> /\ ShownAnnotation[1].skip) =>
       /\ View.parts \cap {"category", "score", "rankings"} = {}
       /\ "skipped-notice" \in View.parts
       /\ ("comment" \in View.parts) =
            (ShownAnnotation[1].comment # NULL /\ ShownAnnotation[1].comment # ""))

\* the human annotation tab rendered a skipped continuous annotation with a
\* comment: the notice and the comment, no score
C19_Witness ==
  /\ Rendered
  /\ route[1].tab = "human-annotation"
  /\ TC.human_annotation = <<Annotation("continuous", TRUE, "text")>>
  /\ View.parts = {"skipped-notice", "comment"}

(***************************************************************************)
(* The AnnotationTestCase validator: a discriminated union on              *)
(* test_case_type of two object schemas.  A raw judge input is validated   *)
(* by the union [InteractionStep, Interaction, InteractionGroup]: the      *)
(* first schema that accepts it gives the result, and an object schema     *)
(* drops the keys it does not declare.                                     *)
(***************************************************************************)
\* InteractionStep needs a string id and string-valued tags; every other
\* field is nullish or has a default.  Interaction needs a steps array and
\* takes tags of any values, InteractionGroup needs an interactions array
\* and declares no tags (the key is dropped).  <<>> when no schema accepts.
RawInputParse(raw) ==
  IF raw.id = NULL THEN <<>>
  ELSE IF raw.tags = "strings" THEN <<RawInput("step", raw.id, raw.tags)>>
  ELSE IF raw.shape = "interaction" THEN <<raw>>
  ELSE IF raw.shape = "group" THEN <<RawInput("group", raw.id, "strings")>>
  ELSE <<>>

\* z.array(union): every element accepted
RawInputsParse(raws) ==
  IF \E i \in 1..Len(raws) : RawInputParse(raws[i]) = <<>> THEN <<>>
  ELSE <<[i \in 1..Len(raws) |-> RawInputParse(raws[i])[1]]>>

\* AnnotationTestCase.parse(body): ok and the parsed value, or not ok
AnnotationTestCaseParse(body) ==
  IF body.test_case_type \notin {"pointwise", "ranking"} THEN [ok |-> FALSE, value |-> <<>>]
  ELSE IF body.granularity \notin KnownKinds THEN [ok |-> FALSE, value |-> <<>>]
  ELSE IF body.test_case_type = "pointwise"
  THEN IF RawInputParse(body.raw_judge_input) = <<>> THEN [ok |-> FALSE, value |-> <<>>]
       ELSE [ok |-> TRUE,
             value |-> <<[body EXCEPT !.raw_judge_input = RawInputParse(@)[1]]>>]
  ELSE IF RawInputsParse(body.raw_judge_inputs) = <<>> THEN [ok |-> FALSE, value |-> <<>>]
       ELSE [ok |-> TRUE,
             value |-> <<[body EXCEPT !.raw_judge_inputs = RawInputsParse(@)[1]]>>]

BodyRawSet ==
  {RawInput(sh, id, tg) : sh \in RawShapes, id \in {"s", NULL}, tg \in {"strings", "mixed"}}

InitValidate ==
  /\ \E g \in KnownKinds \cup {"trace"} : \E type \in {"pointwise", "ranking", "pairwise"} :
       \/ \E raw \in BodyRawSet :
            testCase = <<TestCase(type, g, raw, <<>>, TRUE, <<>>, <<>>, <<>>)>>
       \/ \E n \in 0..MaxInputs : \E raws \in [1..n -> BodyRawSet] :
            testCase = <<TestCase(type, g, NoRaw, raws, TRUE, <<>>, <<>>, <<>>)>>
  /\ route = <<Route(NULL, "trace")>>
  /\ view = NotRun
  /\ steps = <<>> /\ treeOut = NotRun /\ rebuilt = NotRun /\ graphOut = NotRun

\* the body is validated against the schema
ValidateTestCase ==
  /\ view = NotRun
  /\ view' = <<AnnotationTestCaseParse(TC)>>
  /\ UNCHANGED <<testCase, route>>
  /\ UNCHANGED buildVars

NextValidate == ValidateTestCase

ValidateSpec == InitValidate /\ [][NextValidate]_vars

\* the raw judge inputs the variant of the body holds
RawInputsOf(body) ==
  IF body.test_case_type = "ranking" THEN body.raw_judge_inputs
  ELSE <<body.raw_judge_input>>

\* some raw judge input of the body has another shape than the granularity
ShapeMismatch(body) ==
  \E i \in 1..Len(RawInputsOf(body)) : RawInputsOf(body)[i].shape # body.granularity

(***************************************************************************)
(* C20: the validator rejects a test case whose raw judge input (pointwise)*)
(* or one of whose raw judge inputs (ranking) has a shape (lone step,      *)
(* interaction, group) other than feedback_config.granularity.             *)
(***************************************************************************)
C20_MismatchRejected ==
  Rendered => (ShapeMismatch(TC) => ~View.ok)

(***************************************************************************)
(* Repeated builds: the agent graph view renders again and calls           *)
(* buildSpanGraph on the same span collection; graphOut holds the result   *)
(* of every call.  Each call draws its edge ids from crypto.randomUUID.    *)
(***************************************************************************)
MaxBuilds == 2

InitRepeat ==
  /\ \E n \in 0..MaxSteps : \E ss \in [1..n -> GraphSpanSet] :
       /\ \A i \in 1..n : ss[i].name \in {Names[1], Names[4]} /\ ss[i].span_type = "LLM_CALL"
       /\ CanonicalSpanIds(ss)
       /\ steps = ss
  /\ treeOut = NotRun
  /\ rebuilt = NotRun
  /\ graphOut = NotRun
  /\ NoView

\* a later render builds the graph of the same span collection again
BuildGraphAgain ==
  /\ graphOut # NotRun
  /\ Len(graphOut) < MaxBuilds
  /\ \E seed \in 1..MaxSeeds : graphOut' = Append(graphOut, buildSpanGraph(steps, seed))
  /\ UNCHANGED <<steps, treeOut, rebuilt>>
  /\ UNCHANGED viewVars

NextRepeat == BuildGraph \/ BuildGraphAgain

RepeatSpec == InitRepeat /\ [][NextRepeat]_vars

(***************************************************************************)
(* C21: buildSpanGraph is a function of its input only.  All builds of the *)
(* same span collection return equal outputs: the same nodes, the same     *)
(* layout coordinates and the same edges, edge ids included.               *)
(***************************************************************************)
C21_SameOutputEveryBuild ==
  \A i, j \in 1..Len(graphOut) : graphOut[i] = graphOut[j]

(***************************************************************************)
(* Both builders on one step collection: the trace view builds the tree    *)
(* and the agent graph view the graph of the same array, in either order.  *)
(* A step carries the keys both builders read.                             *)
(***************************************************************************)
SharedStep(id, parent, name, start) ==
  [id |-> id, parent_step_id |-> parent, interaction_id |-> NULL, start_ns |-> start,
   name |-> name, span_type |-> NULL,
   span_id |-> id, parent_span_id |-> parent, start_time |-> start]

InitFrame ==
  /\ \E n \in 0..MaxSteps :
       \E ss \in [1..n -> {SharedStep(id, p, nm, s) :
                             id \in IdSet, p \in {NULL, StepIds[1]},
                             nm \in {Names[1], Names[4]}, s \in StartSet}] :
         CanonicalIds(ss) /\ steps = ss
  /\ treeOut = NotRun
  /\ rebuilt = NotRun
  /\ graphOut = NotRun
  /\ NoView

NextFrame == BuildTree \/ BuildGraph

FrameSpec == InitFrame /\ [][NextFrame]_vars

(***************************************************************************)
(* C22: buildSpanTree and buildSpanGraph leave the input step collection   *)
(* unchanged (same steps, same order, same field values), so whichever     *)
(* ran first, each returns what it returns on the collection as given.     *)
(***************************************************************************)
C22_InputUnchanged ==
  [][/\ steps' = steps
     /\ (treeOut' # NotRun => treeOut'[1] = buildSpanTree(steps'))
     /\ (graphOut' # NotRun =>
           \E seed \in 1..MaxSeeds : graphOut'[1] = buildSpanGraph(steps', seed))]_vars

\* both builders have run on a collection that is not in start order, so a
\* sort of the input array itself would have moved a step
C22_Witness ==
  /\ TreeBuilt
  /\ GraphBuilt
  /\ Len(steps) = 3
  /\ StartOrZero(steps[1]) > StartOrZero(steps[2])
  /\ Len(Graph.nodes) = 2

(***************************************************************************)
(* The same Interaction with its steps list in another order: the trace    *)
(* view builds the tree of the list as given, and the tree of a            *)
(* permutation of it (held in rebuilt).  Step ids are unique.              *)
(***************************************************************************)
\* the list ss in the order perm: perm[i] is the old place of the i-th step
Permuted(ss, perm) == [i \in 1..Len(ss) |-> ss[perm[i]]]

InitPermute ==
  /\ \E n \in 0..MaxSteps :
       \* fs[i]: <<parent_step_id, interaction_id, start_ns>> of the i-th step
       \E fs \in [1..n -> RefSet \X {NULL, StepIds[1]} \X StartSet] :
         steps = [i \in 1..n |-> TreeStep(StepIds[i], fs[i][1], fs[i][2], fs[i][3])]
  /\ treeOut = NotRun
  /\ rebuilt = NotRun
  /\ graphOut = NotRun
  /\ NoView

\* the trace view builds the tree of the steps list in another order
BuildPermuted ==
  /\ treeOut # NotRun
  /\ rebuilt = NotRun
  /\ \E perm \in Permutations(1..Len(steps)) :
       rebuilt' = <<buildSpanTree(Permuted(steps, perm))>>
  /\ UNCHANGED <<steps, treeOut, graphOut>>
  /\ UNCHANGED viewVars

NextPermute == BuildTree \/ BuildPermuted

PermuteSpec == InitPermute /\ [][NextPermute]_vars

(***************************************************************************)
(* C23: the tree does not depend on the order of the steps list.  The tree *)
(* of every permutation of the list gives every step the same parent and   *)
(* every children list (the forest roots included) the same order.         *)
(***************************************************************************)
C23_InsertionOrderIrrelevant ==
  (TreeBuilt /\ Reconstructed) =>
    /\ Keys(Rebuilt) = Keys(Tree)
    /\ Roots(Rebuilt) = Roots(Tree)
    /\ \A k \in Keys(Tree) :
         /\ ParentsOf(Rebuilt, k) = ParentsOf(Tree, k)
         /\ NodeOf(Rebuilt, k).children = NodeOf(Tree, k).children

(***************************************************************************)
(* The test case fetch: getTestCase awaits the HTTP response and hands it  *)
(* to parseResponse with the AnnotationTestCase schema.  What it returns   *)
(* is the test case of the page; an HttpError makes the page show an error *)
(* note.                                                                   *)
(***************************************************************************)
\* an HTTP response: ok for a 2xx status, data the body
Response(ok, data) == [ok |-> ok, data |-> data]

\* parseResponse(response, schema), schema the AnnotationTestCase schema or
\* NULL: the parsed body; the body as received when schema.parse throws (the
\* error is logged) or no schema is given; an HttpError when not ok
parseResponse(response, schema) ==
  IF response.ok
  THEN IF schema # NULL /\ AnnotationTestCaseParse(response.data).ok
       THEN [threw |-> FALSE, value |-> AnnotationTestCaseParse(response.data).value]
       ELSE [threw |-> FALSE, value |-> <<response.data>>]
  ELSE [threw |-> TRUE, value |-> <<>>]

getTestCase(response) == parseResponse(response, "AnnotationTestCase")

\* the bodies a response carries: pointwise and ranking shaped, with values
\* inside and outside the schema
BodySet ==
  LET types == {"pointwise", "ranking", "pairwise"}
      grans == KnownKinds \cup {"trace"}
      rawLists == UNION {[1..n -> BodyRawSet] : n \in 0..MaxInputs}
  IN  {TestCase(type, g, raw, <<>>, TRUE, <<>>, <<>>, <<>>) :
         type \in types, g \in grans, raw \in BodyRawSet}
        \cup {TestCase(type, g, NoRaw, raws, TRUE, <<>>, <<>>, <<>>) :
                type \in types, g \in grans, raws \in rawLists}

InitFetch ==
  /\ testCase = NotRun
  /\ route = <<Route(NULL, "trace")>>
  /\ view = NotRun
  /\ steps = <<>> /\ treeOut = NotRun /\ rebuilt = NotRun /\ graphOut = NotRun

\* the response of GET /test-cases/:id arrives
GetTestCase ==
  /\ testCase = NotRun
  /\ view = NotRun
  /\ \E ok \in BOOLEAN : \E body \in BodySet :
       LET result == getTestCase(Response(ok, body))
       IN  IF result.threw
           THEN /\ view' = <<[error |-> "HttpError"]>>
                /\ testCase' = testCase
           ELSE /\ testCase' = result.value
                /\ view' = view
  /\ UNCHANGED route
  /\ UNCHANGED buildVars

FetchSpec == InitFetch /\ [][GetTestCase]_vars

(***************************************************************************)
(* C24: the test case fetch returns only data that validates against the   *)
(* AnnotationTestCase schema; a body that fails validation is not returned *)
(* as a test case.                                                         *)
(***************************************************************************)
C24_ReturnedValidates ==
  testCase # NotRun => AnnotationTestCaseParse(TC).ok

(***************************************************************************)
(* The attachment pass on its own: AttachAll(IndexSteps(steps), ...) is    *)
(* the index and the roots array as nodeMap.forEach leaves them, before    *)
(* sortChildren runs.  Its step collections hold every id, parent and      *)
(* interaction reference (duplicate ids, self-parents and parent cycles    *)
(* included); a start_ns is missing or set, which with the free order of   *)
(* the list gives every order of the index.                                *)
(***************************************************************************)
InitAttach ==
  /\ \E n \in 0..MaxSteps :
       \E ss \in [1..n -> {st \in TreeStepSet : st.start_ns \in {NoStart, MaxStart}}] :
         CanonicalIds(ss) /\ steps = ss
  /\ treeOut = NotRun
  /\ rebuilt = NotRun
  /\ graphOut = NotRun
  /\ NoView

AttachSpec == InitAttach /\ [][NextTree]_vars

\* the number of places that hold node k: its occurrences in the roots array
\* and in the children arrays of all indexed nodes
Holdings(map, roots, k) ==
  LET n == Len(map.keys)
      sum[i \in 0..n] ==
        IF i = 0 THEN Count(roots, k) ELSE sum[i - 1] + Count(map.val[i].children, k)
  IN  sum[n]

(***************************************************************************)
(* C25: after the attachment pass every indexed node is held by exactly    *)
(* one children list, exactly once (of another indexed node, of itself or  *)
(* of the synthetic root), cyclic inputs included; the same holds in the   *)
(* returned tree, and the walk from the synthetic root reaches no node     *)
(* twice and ends (it meets no cycle).                                     *)
(***************************************************************************)
C25_HeldExactlyOnce ==
  TreeBuilt =>
    LET att == AttachAll(IndexSteps(steps), InteractionIds(steps))
        walk == DepthFirstWalk(Tree)
    IN  /\ \A k \in Range(att.map.keys) : Holdings(att.map, att.roots, k) = 1
        /\ \A k \in Keys(Tree) : Holdings(Tree.nodeMap, Roots(Tree), k) = 1
        /\ \A k \in Keys(Tree) : Count(walk, k) <= 1
        /\ WalkList(Tree.nodeMap, Roots(Tree), StackDepth(Tree.nodeMap) + 1) = walk

\* a tree built from a (its own parent), b (parent a) and c (no parent): a
\* and b are held by a, c by the synthetic root, and the walk reaches c only
C25_Witness ==
  /\ TreeBuilt
  /\ Len(steps) = 3
  /\ steps[1].id = "a" /\ steps[1].parent_step_id = "a"
  /\ steps[2].id = "b" /\ steps[2].parent_step_id = "a"
  /\ steps[3].id = "c" /\ steps[3].parent_step_id = NULL /\ steps[3].interaction_id = NULL
  /\ Range(NodeOf(Tree, "a").children) = {"a", "b"}
  /\ Roots(Tree) = <<"c">>
  /\ DepthFirstWalk(Tree) = <<"c">>

(***************************************************************************)
(* C26: validation against the union [InteractionStep, Interaction,        *)
(* InteractionGroup] keeps the shape of a raw judge input: an input with a *)
(* steps list is an Interaction afterwards, an input with an interactions  *)
(* list a group, and the trace view treats as a lone step only an input    *)
(* that has neither.                                                       *)
(***************************************************************************)
C26_ShapeKept ==
  (Rendered /\ View.ok) =>
    LET before == RawInputsOf(TC)
        after == RawInputsOf(View.value[1])
    IN  /\ Len(after) = Len(before)
        /\ \A i \in 1..Len(before) :
             /\ after[i].shape = before[i].shape
             /\ isSingleStep(after[i]) = (before[i].shape = "step")

(***************************************************************************)
(* C27: in the ranking trace view, when the raw judge input viewed is an   *)
(* Interaction or a group, no interaction fetch is issued and the view     *)
(* shows the span tree, not the loading skeleton.                          *)
(***************************************************************************)
C27_NoFetchShowsTree ==
  Rendered =>
    ((/\ View.trace.handler = "PairwiseTraceSidebar"
      /\ View.trace.viewed # <<>>
      /\ ~isSingleStep(View.trace.viewed[1])) =>
       /\ ~View.trace.fetchEnabled
       /\ View.trace.outcome = "tree")

(***************************************************************************)
(* C28: distinct (parent name, child name) pairs never share an edge.  For *)
(* every span whose parent id resolves, the output has an edge whose       *)
(* source is the parent's name and whose target is the span's name, also   *)
(* when names contain "->".                                                *)
(***************************************************************************)
C28_EdgePerNamePair ==
  GraphBuilt =>
    \A i \in 1..Len(steps) :
      ParentResolves(i) =>
        \E j \in 1..Len(Graph.edges) :
          /\ Graph.edges[j].source = SpanById(steps[i].parent_span_id).name
          /\ Graph.edges[j].target = steps[i].name

\* no two steps of the collection share an id
UniqueIds(ss) == \A i, j \in 1..Len(ss) : ss[i].id = ss[j].id => i = j

\* list, an array of node keys of the index map, is in the order of start_ns
\* (missing as 0) and among equal starts in the order of the collection ss
SortedWithInputTies(ss, map, list) ==
  LET place(k) == CHOOSE i \in 1..Len(ss) : ss[i].id = k
  IN  \A i, j \in 1..Len(list) :
        i < j =>
          \/ StartOrZero(MapGet(map, list[i])) < StartOrZero(MapGet(map, list[j]))
          \/ /\ StartOrZero(MapGet(map, list[i])) = StartOrZero(MapGet(map, list[j]))
             /\ place(list[i]) < place(list[j])

(***************************************************************************)
(* C29: for collections with unique ids the recursive re-sort changes      *)
(* nothing.  Right after the attachment pass the roots array and every     *)
(* children array are sorted by start_ns (missing as 0) with ties in input *)
(* order, and the returned index and roots are those of the attachment     *)
(* pass.                                                                   *)
(***************************************************************************)
C29_ResortChangesNothing ==
  (TreeBuilt /\ UniqueIds(steps)) =>
    LET att == AttachAll(IndexSteps(steps), InteractionIds(steps))
    IN  /\ SortedWithInputTies(steps, att.map, att.roots)
        /\ \A k \in Range(att.map.keys) :
             SortedWithInputTies(steps, att.map, MapGet(att.map, k).children)
        /\ ~Tree.threw
        /\ Tree.nodeMap = att.map
        /\ Roots(Tree) = att.roots

\* a tree built from three steps with unique ids, listed against their
\* start order, two of them tied: a (start 1), b (start 0), c (start 0) come
\* out as the forest roots b, c, a
C29_Witness ==
  /\ TreeBuilt
  /\ Len(steps) = 3
  /\ steps[1].id = "a" /\ steps[2].id = "b" /\ steps[3].id = "c"
  /\ StartOrZero(steps[1]) = 1 /\ StartOrZero(steps[2]) = 0 /\ StartOrZero(steps[3]) = 0
  /\ Roots(Tree) = <<"b", "c", "a">>

\* the number of nodes before place j that have the type of node j
EarlierOfType(nodes, j) ==
  Cardinality({i \in 1..(j - 1) : nodes[i].type = nodes[j].type})

(***************************************************************************)
(* C30: no two nodes share a layout position.  The column of a node is the *)
(* rank of its category (the type of the first span of its group, LLM_CALL *)
(* when that has none), and within a category the rows are 0, 1, 2, ...    *)
(* without gaps, in the order the nodes are returned.                      *)
(***************************************************************************)
C30_LayoutPositionsDistinct ==
  GraphBuilt =>
    LET nodes == Graph.nodes
    IN  /\ \A i, j \in 1..Len(nodes) : i # j => nodes[i].position # nodes[j].position
        /\ \A j \in 1..Len(nodes) :
             /\ nodes[j].type = TypeOrDefault(nodes[j].data.interactions[1])
             /\ nodes[j].position.x = typeColumns(nodes[j].type) * NODE_COLUMN_SPACING
             /\ nodes[j].position.y = EarlierOfType(nodes, j) * NODE_ROW_SPACING

\* a graph of three groups: two in the LLM_CALL column (one by default) on
\* rows 0 and 1, one in the TOOL_CALL column on row 0
C30_Witness ==
  /\ GraphBuilt
  /\ Len(Graph.nodes) = 3
  /\ \E j \in 1..3 : Graph.nodes[j].data.interactions[1].span_type = NULL
  /\ Graph.nodes[1].position = [x |-> NODE_COLUMN_SPACING, y |-> 0]
  /\ Graph.nodes[2].position = [x |-> NODE_COLUMN_SPACING, y |-> NODE_ROW_SPACING]
  /\ Graph.nodes[3].position = [x |-> 2 * NODE_COLUMN_SPACING, y |-> 0]

====
